---- MODULE Spec2Model ----
(***************************************************************************)
(* Model of app.py, a Streamlit chat page in front of a hosted model.      *)
(*                                                                         *)
(* Text is a sequence of tokens.  A token is a non-empty string: either    *)
(* the line break "\n", a blank " ", or a run of characters that holds     *)
(* neither.  The empty string of the program is the empty sequence, so     *)
(* Python's truthiness of a string is "the sequence is not empty", string  *)
(* concatenation is \o, and the lines of a text are counted by its line    *)
(* breaks.                                                                 *)
(*                                                                         *)
(* One script run is executed without being interrupted by a new browser   *)
(* event; the chat handler of a run is split at the calls it makes, so     *)
(* that the order of its steps is visible in pc.                           *)
(***************************************************************************)
EXTENDS Integers, Sequences, FiniteSets, TLC

VARIABLES
    chat_history,        \* st.session_state.chat_history
    agent_initialized,   \* st.session_state.agent_initialized
    model,               \* st.session_state.model
    uploaded_files,      \* st.session_state.uploaded_files
    current_context,     \* st.session_state.current_context
    temp_files,          \* st.session_state.temp_files
    env_key,             \* os.getenv('GOOGLE_API_KEY'), fixed for the process
    key_input,           \* value held by the sidebar text_input
    uploader,            \* files held by the file_uploader widget in the browser
    pc,                  \* position of the script
    event,               \* the browser event the current run (chain) answers
    user_input,          \* local of the chat handler
    additional_context,  \* local of the chat handler
    context,             \* local of get_agent_response: what get_context() returned
    prompt,              \* local of get_agent_response
    response,            \* local of the chat handler
    calls,               \* external calls made since the last browser event
    last_call,           \* arguments of the most recent add_to_history call
    history_before,      \* chat_history when the current operation began
    clock,               \* number of add_to_history calls so far
    choices              \* number of budgeted choices taken so far

vars == <<chat_history, agent_initialized, model, uploaded_files, current_context,
          temp_files, env_key, key_input, uploader, pc, event, user_input,
          additional_context, context, prompt, response, calls, last_call,
          history_before, clock, choices>>

-----------------------------------------------------------------------------
(* Bounds of the exploration *)

\* submitted messages per session (11 messages make 22 appends, past the cap)
MaxTurns == 11

\* choices per behaviour other than a plain, successfully answered message
MaxChoices == 2

-----------------------------------------------------------------------------
(* Text *)

NL == "\n"

None == "None"

Min(a, b) == IF a < b THEN a ELSE b

Max(a, b) == IF a > b THEN a ELSE b

IsSpace(tok) == tok \in {" ", NL}

\* str.strip(): leading and trailing white space removed
RECURSIVE lstrip(_)
lstrip(t) == IF t # <<>> /\ IsSpace(Head(t)) THEN lstrip(Tail(t)) ELSE t

RECURSIVE rstrip(_)
rstrip(t) ==
    IF t # <<>> /\ IsSpace(t[Len(t)]) THEN rstrip(SubSeq(t, 1, Len(t) - 1)) ELSE t

strip(t) == rstrip(lstrip(t))

\* s[-n:] of Python for n > 0: the last n elements, or all of s when shorter
slice_last(s, n) == SubSeq(s, Max(1, Len(s) - n + 1), Len(s))

\* number of line breaks of a text
RECURSIVE CountNL(_)
CountNL(t) ==
    IF t = <<>> THEN 0 ELSE (IF Head(t) = NL THEN 1 ELSE 0) + CountNL(Tail(t))

\* concatenation of a sequence of texts
RECURSIVE Flatten(_)
Flatten(ts) == IF ts = <<>> THEN <<>> ELSE Head(ts) \o Flatten(Tail(ts))

-----------------------------------------------------------------------------
(* Configuration *)

MAX_HISTORY == 10

GEMINI_MODEL == "gemini-2.5-flash"

-----------------------------------------------------------------------------
(* File processing *)

\* A file is [name, parts, readable, error]: parts are the pages of a PDF, the
\* paragraphs of a DOCX, the decoded chunks of a TXT; readable is whether the
\* reader library (or the UTF-8 decoder) accepts it, error its message if not.

RECURSIVE pdf_pages(_)
pdf_pages(pages) ==
    IF pages = <<>> THEN <<>> ELSE Head(pages) \o <<NL>> \o pdf_pages(Tail(pages))

extract_text_from_pdf(file) ==
    IF file.readable THEN pdf_pages(file.parts)
    ELSE <<"Error reading PDF: ">> \o file.error

RECURSIVE join_nl(_)
join_nl(ps) ==
    IF ps = <<>> THEN <<>>
    ELSE IF Len(ps) = 1 THEN Head(ps)
    ELSE Head(ps) \o <<NL>> \o join_nl(Tail(ps))

extract_text_from_docx(file) ==
    IF file.readable THEN join_nl(file.parts)
    ELSE <<"Error reading DOCX: ">> \o file.error

extract_text_from_txt(file) ==
    IF file.readable THEN Flatten(file.parts)
    ELSE <<"Error reading TXT: ">> \o file.error

\* str.lower() on the extensions that occur
lower(tok) ==
    CASE tok = "PDF" -> "pdf"
      [] tok = "DOCX" -> "docx"
      [] tok = "TXT" -> "txt"
      [] OTHER -> tok

\* name.split('.')[-1]: a name is tokenised at its dots, so this is its last
\* token, or the empty string when the name ends with a dot
last_part(name) ==
    IF name = <<>> \/ name[Len(name)] = "." THEN "" ELSE name[Len(name)]

process_uploaded_file(uploaded_file) ==
    LET file_type == lower(last_part(uploaded_file.name))
    IN  IF file_type = "pdf" THEN extract_text_from_pdf(uploaded_file)
        ELSE IF file_type = "docx" THEN extract_text_from_docx(uploaded_file)
        ELSE IF file_type = "txt" THEN extract_text_from_txt(uploaded_file)
        ELSE <<"Unsupported file format. Please upload PDF, DOCX, or TXT files.">>

\* scrape_website: the page is fetched and cleaned by external libraries; the
\* outcome is the cleaned text of the page, or the message of the exception
scrape_website(url, outcome) ==
    IF outcome.ok THEN outcome.text
    ELSE <<"Error scraping website: ">> \o outcome.text

\* a URL is tokenised after its scheme or its "www." prefix
is_url(text) == text # <<>> /\ Head(text) \in {"http://", "https://", "www."}

-----------------------------------------------------------------------------
(* Chat functions *)

Turn(role, content, ctx, timestamp) ==
    [role |-> role, content |-> content, context |-> ctx,
     timestamp |-> timestamp]

RECURSIVE context_lines(_)
context_lines(msgs) ==
    IF msgs = <<>> THEN <<>>
    ELSE <<Head(msgs).role, ": ">> \o Head(msgs).content \o <<NL>>
         \o context_lines(Tail(msgs))

\* variant: the first ten turns instead of the last ten (history[:10])
get_context_first_ten(history) ==
    IF history = <<>> THEN <<>>
    ELSE <<"Previous conversation:", NL>>
         \o context_lines(SubSeq(history, 1, Min(Len(history), 10)))

get_context(history) ==
    IF history = <<>> THEN <<>>
    ELSE <<"Previous conversation:", NL>> \o context_lines(slice_last(history, 10))

build_prompt(history, user_message, additional) ==
    LET context0 == get_context(history)
        context1 == IF additional # <<>>
                    THEN context0 \o <<NL, NL, "Additional Context:", NL>>
                         \o additional \o <<NL>>
                    ELSE context0
    IN  IF context1 # <<>>
        THEN context1 \o <<NL, "User: ">> \o user_message \o <<NL, "Assistant:">>
        ELSE user_message

\* variant: the exception text is returned without the error prefix
model_reply_bare_exception(outcome) == outcome.text

\* the cross-mark glyph of the source is written (x)
model_reply(outcome) ==
    IF outcome.ok THEN outcome.text ELSE <<"(x) Error: ">> \o outcome.text

\* variant: the cap keeps the oldest turns and drops the newest (appended[:20])
add_to_history_keep_oldest(history, role, content, ctx, timestamp) ==
    LET appended == Append(history, Turn(role, content, ctx, timestamp))
    IN  IF Len(appended) > MAX_HISTORY * 2
        THEN SubSeq(appended, 1, MAX_HISTORY * 2)
        ELSE appended

\* variant: the cap is off by one (>= instead of >), so one turn fewer is kept
add_to_history_cap_minus_one(history, role, content, ctx, timestamp) ==
    LET appended == Append(history, Turn(role, content, ctx, timestamp))
    IN  IF Len(appended) >= MAX_HISTORY * 2
        THEN slice_last(appended, MAX_HISTORY * 2 - 1)
        ELSE appended

add_to_history(history, role, content, ctx, timestamp) ==
    LET appended == Append(history, Turn(role, content, ctx, timestamp))
    IN  IF Len(appended) > MAX_HISTORY * 2
        THEN slice_last(appended, MAX_HISTORY * 2)
        ELSE appended

-----------------------------------------------------------------------------
(* Inputs drawn by the environment *)

\* a plain message, and a URL typed with blanks around it
Messages ==
    { <<"Hi">>,
      <<" ", "https://", "example.com", " ">> }

PlainMessage == <<"Hi">>

NotesTxt ==
    [name |-> <<"notes", ".", "txt">>, parts |-> << <<"alpha">> >>,
     readable |-> TRUE, error |-> <<>>]

PaperPdf ==
    [name |-> <<"paper", ".", "PDF">>, parts |-> << <<"page1">>, <<"page2">> >>,
     readable |-> TRUE, error |-> <<>>]

BrokenDocx ==
    [name |-> <<"draft", ".", "docx">>, parts |-> <<>>,
     readable |-> FALSE, error |-> <<"File is not a zip file">>]

\* what the user may leave in the upload control, in upload order
Uploads == { <<>>, <<NotesTxt>>, <<PaperPdf, BrokenDocx>> }

ModelOutcomes ==
    { [ok |-> TRUE, text |-> <<"Hello!">>],
      [ok |-> FALSE, text |-> <<"429 quota exceeded">>] }

ScrapeOutcomes ==
    { [ok |-> TRUE, text |-> <<"Example Domain", NL, "More information...">>],
      [ok |-> FALSE, text |-> <<"HTTPSConnectionPool: Read timed out.">>] }

EnvKeys == {"", "env-key"}

TypedKeys == {"", "typed-key"}

NoCalls ==
    [initialize_agent |-> 0, scrape_website |-> 0, process_uploaded_file |-> 0,
     generate_content |-> 0, add_to_history |-> 0]

NoCall == [role |-> None, content |-> <<>>, context |-> <<>>]

-----------------------------------------------------------------------------
(* The script *)

\* lines 59-75 and the state of a page nobody has touched yet
Init ==
    /\ chat_history = <<>>
    /\ agent_initialized = FALSE
    /\ model = None
    /\ uploaded_files = <<>>
    /\ current_context = <<>>
    /\ temp_files = <<>>
    /\ env_key \in EnvKeys
    /\ key_input = ""
    /\ uploader = <<>>
    /\ pc = "Start"
    /\ event = "start"
    /\ user_input = <<>>
    /\ additional_context = <<>>
    /\ context = <<>>
    /\ prompt = <<>>
    /\ response = <<>>
    /\ calls = NoCalls
    /\ last_call = NoCall
    /\ history_before = <<>>
    /\ clock = 0
    /\ choices = 0

\* lines 162-169: the environment variable, else the sidebar input
api_key(typed) == IF env_key # "" THEN env_key ELSE typed

\* the upload control and the chat input are on the page only when the last
\* run got past lines 295-306
InputsShown == api_key(key_input) # "" /\ agent_initialized

\* initialize_agent can fail only when it is called; a failure is a budgeted choice
InitOutcomes(typed, cost) ==
    IF api_key(typed) # "" /\ ~agent_initialized /\ choices + cost < MaxChoices
    THEN BOOLEAN ELSE {TRUE}

InitCost(typed, init_ok) ==
    IF api_key(typed) # "" /\ ~agent_initialized /\ ~init_ok THEN 1 ELSE 0

\* variant: the credential gate of lines 295-298 is missing
RunPage_without_gate(typed, init_ok, seen, held, c0, next) ==
    IF ~agent_initialized /\ ~init_ok
    THEN /\ pc' = "Idle"
         /\ uploader' = <<>>
         /\ calls' = [c0 EXCEPT !.initialize_agent = @ + 1]
         /\ UNCHANGED <<agent_initialized, model, temp_files>>
    ELSE /\ agent_initialized' = TRUE
         /\ model' = IF agent_initialized THEN model ELSE GEMINI_MODEL
         /\ calls' = IF agent_initialized THEN c0
                     ELSE [c0 EXCEPT !.initialize_agent = @ + 1]
         /\ uploader' = held
         /\ temp_files' = IF seen # <<>> THEN seen ELSE temp_files
         /\ pc' = next

\* lines 294-336 of one run: the credential gate, initialize_agent, the upload
\* control.  typed: the sidebar input of this run; seen: what file_uploader
\* returns; held: what the control holds afterwards; c0: the calls so far;
\* next: where the script goes on when it is not stopped.
RunPage(typed, init_ok, seen, held, c0, next) ==
    IF api_key(typed) = ""
    THEN \* st.stop() at line 298: nothing below the gate is on the page
         /\ pc' = "Idle"
         /\ uploader' = <<>>
         /\ calls' = c0
         /\ UNCHANGED <<agent_initialized, model, temp_files>>
    ELSE IF ~agent_initialized /\ ~init_ok
    THEN \* initialize_agent returned False: st.stop() at line 306
         /\ pc' = "Idle"
         /\ uploader' = <<>>
         /\ calls' = [c0 EXCEPT !.initialize_agent = @ + 1]
         /\ UNCHANGED <<agent_initialized, model, temp_files>>
    ELSE /\ agent_initialized' = TRUE
         /\ model' = IF agent_initialized THEN model ELSE GEMINI_MODEL
         /\ calls' = IF agent_initialized THEN c0
                     ELSE [c0 EXCEPT !.initialize_agent = @ + 1]
         /\ uploader' = held
         /\ temp_files' = IF seen # <<>> THEN seen ELSE temp_files
         /\ pc' = next

ResetLocals ==
    /\ user_input' = <<>>
    /\ additional_context' = <<>>
    /\ context' = <<>>
    /\ prompt' = <<>>
    /\ response' = <<>>
    /\ last_call' = NoCall
    /\ history_before' = <<>>

\* the first run of a session
Start ==
    /\ pc = "Start"
    /\ \E init_ok \in InitOutcomes(key_input, 0) :
          /\ RunPage(key_input, init_ok, <<>>, <<>>, NoCalls, "Idle")
          /\ choices' = choices + InitCost(key_input, init_ok)
    /\ UNCHANGED <<chat_history, uploaded_files, current_context, env_key,
                   key_input, event, user_input, additional_context, context, prompt,
                   response, last_call, history_before, clock>>

\* the user types (or deletes) the credential in the sidebar: a run without
\* chat input
EnterKey ==
    /\ pc = "Idle"
    /\ env_key = ""
    /\ choices < MaxChoices
    /\ \E typed \in TypedKeys \ {key_input} :
          /\ key_input' = typed
          /\ \E init_ok \in InitOutcomes(typed, 1) :
                /\ RunPage(typed, init_ok, uploader, uploader, NoCalls, "Idle")
                /\ choices' = choices + 1 + InitCost(typed, init_ok)
    /\ event' = "key"
    /\ ResetLocals
    /\ UNCHANGED <<chat_history, uploaded_files, current_context, env_key, clock>>

\* the user changes the content of the upload control: a run without chat input
Upload ==
    /\ pc = "Idle"
    /\ InputsShown
    /\ choices < MaxChoices
    /\ \E files \in Uploads \ {uploader} :
          RunPage(key_input, TRUE, files, files, NoCalls, "Idle")
    /\ choices' = choices + 1
    /\ event' = "upload"
    /\ ResetLocals
    /\ UNCHANGED <<chat_history, uploaded_files, current_context, env_key,
                   key_input, clock>>

\* lines 182-187: the Clear Conversation button
ClickClear ==
    /\ pc = "Idle"
    /\ choices < MaxChoices
    /\ chat_history' = <<>>
    /\ current_context' = <<>>
    /\ uploaded_files' = <<>>
    /\ temp_files' = <<>>
    /\ pc' = "Rerun"
    /\ event' = "clear"
    /\ calls' = NoCalls
    /\ choices' = choices + 1
    /\ ResetLocals
    /\ UNCHANGED <<agent_initialized, model, env_key, key_input, uploader, clock>>

\* What file_uploader returns in the run st.rerun() starts.  After line 388
\* the control was drawn in the run that ended, and it returns what it
\* holds.  After line 187 the run ended before the control was drawn: whether
\* the server then still has the control's value, or meets it again only with
\* the next browser event, depends on the Streamlit release.
RerunSees == IF event = "clear" THEN {uploader, <<>>} ELSE {uploader}

\* the run started by st.rerun() (lines 187 and 388)
Rerun ==
    /\ pc = "Rerun"
    /\ \E seen \in RerunSees :
       \E init_ok \in InitOutcomes(key_input, 0) :
          /\ RunPage(key_input, init_ok, seen, uploader, calls, "Idle")
          /\ choices' = choices + InitCost(key_input, init_ok)
    /\ UNCHANGED <<chat_history, uploaded_files, current_context, env_key,
                   key_input, event, user_input, additional_context, context, prompt,
                   response, last_call, history_before, clock>>

-----------------------------------------------------------------------------
(* The chat handler, lines 347-388 *)

\* line 354
website_block(input, website_content) ==
    <<NL, NL, "Website Content from ">> \o input \o <<":", NL>> \o website_content

\* line 362
file_block(uploaded_file) ==
    <<NL, NL, "File: ">> \o uploaded_file.name \o <<NL>>
    \o process_uploaded_file(uploaded_file) \o <<NL>>

\* variant: the files are taken newest first
RECURSIVE file_blocks_newest_first(_)
file_blocks_newest_first(files) ==
    IF files = <<>> THEN <<>>
    ELSE file_blocks_newest_first(Tail(files)) \o file_block(Head(files))

\* lines 360-362: the loop over the pending files
RECURSIVE file_blocks(_)
file_blocks(files) ==
    IF files = <<>> THEN <<>> ELSE file_block(Head(files)) \o file_blocks(Tail(files))

\* where the handler goes after line 355
AfterScrape(pending) == IF pending # <<>> THEN "ExtractingFiles" ELSE "AppendUser"

\* the user submits a message: a run of the script with user_input set, up to
\* line 350
Submit ==
    /\ pc = "Idle"
    /\ InputsShown
    /\ clock < 2 * MaxTurns
    /\ \E message \in Messages :
          /\ message # PlainMessage => choices < MaxChoices
          /\ choices' = choices + (IF message # PlainMessage THEN 1 ELSE 0)
          /\ user_input' = message
          /\ RunPage(key_input, TRUE, uploader, uploader, NoCalls,
                     IF is_url(strip(message)) THEN "Scraping"
                     ELSE AfterScrape(IF uploader # <<>> THEN uploader
                                      ELSE temp_files))
    /\ event' = "submit"
    /\ additional_context' = <<>>
    /\ context' = <<>>
    /\ prompt' = <<>>
    /\ response' = <<>>
    /\ last_call' = NoCall
    /\ history_before' = chat_history
    /\ UNCHANGED <<chat_history, uploaded_files, current_context, env_key,
                   key_input, clock>>

\* lines 351-355
Scrape ==
    /\ pc = "Scraping"
    /\ \E outcome \in ScrapeOutcomes :
          additional_context' =
              additional_context
              \o website_block(user_input, scrape_website(strip(user_input), outcome))
    /\ calls' = [calls EXCEPT !.scrape_website = @ + 1]
    /\ pc' = AfterScrape(temp_files)
    /\ UNCHANGED <<chat_history, agent_initialized, model, uploaded_files,
                   current_context, temp_files, env_key, key_input, uploader,
                   event, user_input, context, prompt, response, last_call,
                   history_before, clock, choices>>

\* lines 358-363
ExtractFiles ==
    /\ pc = "ExtractingFiles"
    /\ additional_context' = additional_context \o file_blocks(temp_files)
    /\ calls' = [calls EXCEPT !.process_uploaded_file = @ + Len(temp_files)]
    /\ pc' = "AppendUser"
    /\ UNCHANGED <<chat_history, agent_initialized, model, uploaded_files,
                   current_context, temp_files, env_key, key_input, uploader,
                   event, user_input, context, prompt, response, last_call,
                   history_before, clock, choices>>

\* line 366
AppendUser ==
    /\ pc = "AppendUser"
    /\ chat_history' =
           add_to_history(chat_history, "User", user_input, additional_context,
                          clock + 1)
    /\ last_call' =
           [role |-> "User", content |-> user_input, context |-> additional_context]
    /\ clock' = clock + 1
    /\ calls' = [calls EXCEPT !.add_to_history = @ + 1]
    /\ pc' = "PromptBuilding"
    /\ UNCHANGED <<agent_initialized, model, uploaded_files, current_context,
                   temp_files, env_key, key_input, uploader, event, user_input,
                   additional_context, context, prompt, response, history_before,
                   choices>>

\* lines 252-263 of get_agent_response
BuildPrompt ==
    /\ pc = "PromptBuilding"
    /\ context' = get_context(chat_history)
    /\ prompt' = build_prompt(chat_history, user_input, additional_context)
    /\ pc' = "AwaitingModel"
    /\ UNCHANGED <<chat_history, agent_initialized, model, uploaded_files,
                   current_context, temp_files, env_key, key_input, uploader,
                   event, user_input, additional_context, response, calls,
                   last_call, history_before, clock, choices>>

\* lines 266-270 of get_agent_response: the answer, or the caught exception
ModelReturns ==
    /\ pc = "AwaitingModel"
    /\ \E outcome \in ModelOutcomes :
          /\ ~outcome.ok => choices < MaxChoices
          /\ choices' = choices + (IF outcome.ok THEN 0 ELSE 1)
          /\ response' = model_reply(outcome)
    /\ calls' = [calls EXCEPT !.generate_content = @ + 1]
    /\ pc' = "Rendering"
    /\ UNCHANGED <<chat_history, agent_initialized, model, uploaded_files,
                   current_context, temp_files, env_key, key_input, uploader,
                   event, user_input, additional_context, context, prompt, last_call,
                   history_before, clock>>

\* lines 382-388
Render ==
    /\ pc = "Rendering"
    /\ chat_history' =
           add_to_history(chat_history, "Assistant", response, <<>>, clock + 1)
    /\ last_call' = [role |-> "Assistant", content |-> response, context |-> <<>>]
    /\ clock' = clock + 1
    /\ calls' = [calls EXCEPT !.add_to_history = @ + 1]
    /\ temp_files' = <<>>
    /\ pc' = "Rerun"
    /\ UNCHANGED <<agent_initialized, model, uploaded_files, current_context,
                   env_key, key_input, uploader, event, user_input,
                   additional_context, context, prompt, response, history_before,
                   choices>>

Next ==
    \/ Start
    \/ EnterKey
    \/ Upload
    \/ ClickClear
    \/ Rerun
    \/ Submit
    \/ Scrape
    \/ ExtractFiles
    \/ AppendUser
    \/ BuildPrompt
    \/ ModelReturns
    \/ Render

Spec == Init /\ [][Next]_vars

-----------------------------------------------------------------------------
(* The history functions on their own: add_to_history and get_context        *)
(* called with any role, content and context, on histories of every length.  *)

Roles == {"User", "Assistant"}

Contents == { <<"Hi">>, <<"first line", NL, "second line">>, <<>> }

Contexts == { <<>>, <<NL, NL, "File: ", "notes", ".", "txt", NL, "alpha", NL>> }

SeedKinds == {"plain", "mixed"}

\* the arguments of the i-th call that builds a starting history
SeedRole(kind, i) ==
    IF kind = "plain" THEN (IF i % 2 = 1 THEN "User" ELSE "Assistant")
    ELSE (IF i % 3 = 0 THEN "Assistant" ELSE "User")

SeedContent(kind, i) ==
    IF kind = "mixed" /\ i % 4 = 0 THEN <<"first line", NL, "second line">>
    ELSE <<"Hi">>

\* the history after n calls of add_to_history on the empty history
RECURSIVE Seeded(_, _)
Seeded(kind, n) ==
    IF n = 0 THEN <<>>
    ELSE add_to_history(Seeded(kind, n - 1), SeedRole(kind, n),
                        SeedContent(kind, n), <<>>, n)

InitHist ==
    /\ \E kind \in SeedKinds, n \in 0 .. (MAX_HISTORY * 2) :
          /\ chat_history = Seeded(kind, n)
          /\ clock = n
    /\ agent_initialized = FALSE
    /\ model = None
    /\ uploaded_files = <<>>
    /\ current_context = <<>>
    /\ temp_files = <<>>
    /\ env_key = ""
    /\ key_input = ""
    /\ uploader = <<>>
    /\ pc = "Library"
    /\ event = "start"
    /\ user_input = <<>>
    /\ additional_context = <<>>
    /\ context = <<>>
    /\ prompt = <<>>
    /\ response = <<>>
    /\ calls = NoCalls
    /\ last_call = NoCall
    /\ history_before = <<>>
    /\ choices = 0

\* add_to_history(role, content, context)
CallAddToHistory ==
    /\ pc = "Library"
    /\ choices < MaxChoices
    /\ \E role \in Roles, content \in Contents, ctx \in Contexts :
          /\ chat_history' = add_to_history(chat_history, role, content, ctx, clock + 1)
          /\ last_call' = [role |-> role, content |-> content, context |-> ctx]
    /\ history_before' = chat_history
    /\ clock' = clock + 1
    /\ choices' = choices + 1
    /\ event' = "add_to_history"
    /\ calls' = [calls EXCEPT !.add_to_history = @ + 1]
    /\ UNCHANGED <<agent_initialized, model, uploaded_files, current_context,
                   temp_files, env_key, key_input, uploader, pc, user_input,
                   additional_context, context, prompt, response>>

\* get_context()
CallGetContext ==
    /\ pc = "Library"
    /\ event # "get_context"
    /\ context' = get_context(chat_history)
    /\ event' = "get_context"
    /\ UNCHANGED <<chat_history, agent_initialized, model, uploaded_files,
                   current_context, temp_files, env_key, key_input, uploader, pc,
                   user_input, additional_context, prompt, response, calls,
                   last_call, history_before, clock, choices>>

NextHist == CallAddToHistory \/ CallGetContext

SpecHist == InitHist /\ [][NextHist]_vars

-----------------------------------------------------------------------------
(* Properties *)

\* the turn a call of add_to_history was asked to store
SameTurn(turn, call) ==
    /\ turn.role = call.role
    /\ turn.content = call.content
    /\ turn.context = call.context

\* C1: every call of add_to_history, whatever its role, content and context,
\* leaves at most 2 * MAX_HISTORY turns; the new turn is the last one, and the
\* turns before it are the newest turns of the history before the call,
\* unchanged and in their order, so what is dropped is the oldest turns only.
C1_HistoryCappedFifo ==
    [][ clock' = clock + 1 =>
          LET old == chat_history
              new == chat_history'
              dropped == Len(old) + 1 - Len(new)
          IN  /\ Len(new) = Min(Len(old) + 1, 2 * MAX_HISTORY)
              /\ SameTurn(new[Len(new)], last_call')
              /\ \A i \in 1 .. (Len(new) - 1) : new[i] = old[i + dropped] ]_vars

\* a call on a full history has dropped its oldest turn
C1_Witness ==
    /\ event = "add_to_history"
    /\ Len(history_before) = 2 * MAX_HISTORY
    /\ Len(chat_history) = 2 * MAX_HISTORY
    /\ chat_history[1] = history_before[2]
    /\ chat_history[1] # history_before[1]

\* the entries "{role}: {content}\n" of the last ten turns, by index
ContextEntries(history) ==
    LET k == Min(Len(history), 10)
    IN  [i \in 1 .. k |->
            LET turn == history[Len(history) - k + i]
            IN  <<turn.role, ": ">> \o turn.content \o <<NL>>]

HasLineBreak(t) == \E i \in 1 .. Len(t) : t[i] = NL

\* C7 as claimed: get_context returns the empty string on the empty history,
\* and otherwise the header line followed by exactly min(len(history), 10)
\* lines, one per turn of the last min(len(history), 10) turns in order.
C7_ExactlyMinLines ==
    event = "get_context" =>
        IF chat_history = <<>> THEN context = <<>>
        ELSE /\ context = <<"Previous conversation:", NL>>
                          \o Flatten(ContextEntries(chat_history))
             /\ CountNL(context) = 1 + Min(Len(chat_history), 10)

\* C7 as amended: get_context returns the empty string on the empty history,
\* and otherwise the header line followed by one entry "{role}: {content}\n"
\* per turn of the last min(len(history), 10) turns in order; the entries are
\* min(len(history), 10) lines when none of these contents holds a line break,
\* and every line break in a content adds one line.
C7_ContextEntriesInOrder ==
    event = "get_context" =>
        IF chat_history = <<>> THEN context = <<>>
        ELSE LET entries == ContextEntries(chat_history)
                 k == Min(Len(chat_history), 10)
                 recent == SubSeq(chat_history, Len(chat_history) - k + 1,
                                  Len(chat_history))
             IN  /\ context = <<"Previous conversation:", NL>> \o Flatten(entries)
                 /\ Len(entries) = k
                 /\ (\A i \in 1 .. k : ~HasLineBreak(recent[i].content))
                        => CountNL(context) = 1 + k
                 /\ CountNL(context)
                        = 1 + k + CountNL(Flatten([i \in 1 .. k |-> recent[i].content]))

\* get_context was called on a history longer than ten turns whose recent
\* turns hold a content of two lines
C7_Witness ==
    /\ event = "get_context"
    /\ Len(chat_history) > 10
    /\ \E i \in (Len(chat_history) - 9) .. Len(chat_history) :
          HasLineBreak(chat_history[i].content)
    /\ context # <<>>

\* C2: with an empty history, a message that is no URL and no pending file,
\* the prompt handed to generate_content is the raw message.
C2_BarePromptOnEmptyHistory ==
    ( /\ pc = "AwaitingModel"
      /\ history_before = <<>>
      /\ ~is_url(strip(user_input))
      /\ temp_files = <<>> )
        => prompt = user_input

\* C3: once a submitted message has been processed and the page waits for
\* input again, no attachment is pending.
C3_AttachmentsConsumedOnce ==
    (pc = "Idle" /\ event = "submit") => temp_files = <<>>

Replies ==
    {o.text : o \in {x \in ModelOutcomes : x.ok}}
    \cup {<<"(x) Error: ">> \o o.text : o \in {x \in ModelOutcomes : ~x.ok}}

\* C5: for a submitted message generate_content is called exactly once, never
\* again after a failure; the reply is the answer or the error line; and the
\* processed message has added one User turn followed by one Assistant turn
\* that holds the reply, on top of the newest turns of the history before it.
C5_OneCallOneExchange ==
    event = "submit" =>
        /\ pc \in {"Scraping", "ExtractingFiles", "AppendUser", "PromptBuilding",
                   "AwaitingModel"} => calls.generate_content = 0
        /\ pc \in {"Rendering", "Rerun", "Idle"} =>
              /\ calls.generate_content = 1
              /\ response \in Replies
        /\ pc \in {"Rerun", "Idle"} =>
              LET n == Len(chat_history)
                  kept == n - 2
              IN  /\ n = Min(Len(history_before) + 2, 2 * MAX_HISTORY)
                  /\ calls.add_to_history = 2
                  /\ chat_history[n - 1].role = "User"
                  /\ chat_history[n - 1].content = user_input
                  /\ chat_history[n].role = "Assistant"
                  /\ chat_history[n].content = response
                  /\ \A i \in 1 .. kept :
                        chat_history[i]
                            = history_before[Len(history_before) - kept + i]

\* a message whose model call failed has been processed to the end
C5_Witness ==
    /\ event = "submit"
    /\ pc = "Idle"
    /\ response # <<>>
    /\ response[1] = "(x) Error: "
    /\ chat_history[Len(chat_history)].content = response

\* C6: a run made without a credential stops at the gate: it makes no call
\* (initialize_agent, scrape, extraction, model), leaves the agent as it was
\* and appends no turn.
C6_NoCredentialNoProcessing ==
    [][ api_key(key_input') = "" =>
          /\ pc' \in {"Idle", "Rerun"}
          /\ calls' = NoCalls
          /\ agent_initialized' = agent_initialized
          /\ model' = model
          /\ clock' = clock
          /\ chat_history' \in {chat_history, <<>>} ]_vars

\* the credential was withdrawn from a session that had already chatted, and
\* the run that followed stopped
C6_Witness ==
    /\ api_key(key_input) = ""
    /\ event = "key"
    /\ pc = "Idle"
    /\ agent_initialized
    /\ chat_history # <<>>

\* the block of the scraped page, for each outcome of the fetch
WebsiteBlocks(input) ==
    {<<NL, NL, "Website Content from ">> \o input \o <<":", NL>> \o page :
        page \in {o.text : o \in {x \in ScrapeOutcomes : x.ok}}
                 \cup {<<"Error scraping website: ">> \o o.text :
                          o \in {x \in ScrapeOutcomes : ~x.ok}}}

\* the blocks of the pending files, by index, each under its file name
FileBlocksInUploadOrder(files) ==
    Flatten([i \in 1 .. Len(files) |->
                <<NL, NL, "File: ">> \o files[i].name \o <<NL>>
                \o process_uploaded_file(files[i]) \o <<NL>>])

\* C8: when the model is called, the additional context is the URL block (only
\* for an input that passes the URL test) followed by one block per pending
\* file in upload order under its file name; the prompt holds it after the
\* history block under the "Additional Context:" marker; and the User turn
\* stored for the message carries the same text as its context.
C8_AdditionalContextAssembled ==
    /\ pc = "AwaitingModel" =>
          /\ \E web \in (IF is_url(strip(user_input)) THEN WebsiteBlocks(user_input)
                         ELSE {<<>>}) :
                additional_context = web \o FileBlocksInUploadOrder(temp_files)
          /\ additional_context # <<>> =>
                prompt = context \o <<NL, NL, "Additional Context:", NL>>
                         \o additional_context
                         \o <<NL, NL, "User: ">> \o user_input \o <<NL, "Assistant:">>
          /\ additional_context = <<>> =>
                \A i \in 1 .. Len(prompt) : prompt[i] # "Additional Context:"
          /\ context # <<>>
          /\ chat_history[Len(chat_history)].role = "User"
          /\ chat_history[Len(chat_history)].content = user_input
          /\ chat_history[Len(chat_history)].context = additional_context
    /\ (event = "submit" /\ pc \in {"Rerun", "Idle"}) =>
          /\ chat_history[Len(chat_history) - 1].role = "User"
          /\ chat_history[Len(chat_history) - 1].context = additional_context

\* a URL was submitted with two files pending on a history of earlier turns
C8_Witness ==
    /\ pc = "AwaitingModel"
    /\ is_url(strip(user_input))
    /\ Len(temp_files) = 2
    /\ history_before # <<>>
    /\ calls.scrape_website = 1
    /\ calls.process_uploaded_file = 2

\* C9: the history is not modified before Rendering: while the prompt is built
\* and while the model is awaited it is the history that existed at Idle.
C9_HistoryUntouchedUntilRendering ==
    (event = "submit" /\ pc \in {"PromptBuilding", "AwaitingModel"})
        => chat_history = history_before

\* C10: whenever the page waits for input, the history has even length and its
\* roles alternate, beginning with a User turn and ending with an Assistant
\* turn.
C10_IdleHistoryAlternates ==
    pc = "Idle" =>
        /\ Len(chat_history) % 2 = 0
        /\ \A i \in 1 .. Len(chat_history) :
              chat_history[i].role = IF i % 2 = 1 THEN "User" ELSE "Assistant"

\* the page waits for input after the cap has evicted turns
C10_Witness ==
    /\ pc = "Idle"
    /\ Len(chat_history) = 2 * MAX_HISTORY
    /\ chat_history[1].timestamp > 1

====
